---- MODULE Spec2Model ----
(***************************************************************************)
(* The news-archive pipeline of fetch_ai_news.py (fetch orchestrator,      *)
(* retention sweep, manifest rebuild) and update_index.py (standalone      *)
(* indexer), over a directory news/ of dated JSON entries and the manifest *)
(* index.json.                                                             *)
(*                                                                         *)
(* A filename is a sequence of tokens: literal text that holds no date     *)
(* pattern, a 4-2-2 digit group "dddd-dd-dd" (what the regular expression  *)
(* \d{4}-\d{2}-\d{2} matches) or a 2-2-2 digit group "dd-dd-dd" (the       *)
(* time-of-day part of a timestamp), followed by an extension.  Dates are  *)
(* proleptic Gregorian ordinals, as datetime compares them.                *)
(***************************************************************************)
EXTENDS Integers, Sequences, FiniteSets, TLC

VARIABLES dirExists, listing, manifest, pc, now, secret, clock, resp, pre, outcome

vars == <<dirExists, listing, manifest, pc, now, secret, clock, resp, pre, outcome>>

\* ------------------------------------------------------------------ bounds

\* Most files the directory news/ holds in the model.
MaxFiles == 3

\* ---------------------------------------------------------------- calendar

IsLeap(y) == (y % 4 = 0) /\ ((y % 100 # 0) \/ (y % 400 = 0))

DaysInMonth(y, m) ==
    IF m = 2 THEN (IF IsLeap(y) THEN 29 ELSE 28)
    ELSE IF m \in {4, 6, 9, 11} THEN 30 ELSE 31

DaysBeforeYear(y) ==
    (y - 1) * 365 + ((y - 1) \div 4) - ((y - 1) \div 100) + ((y - 1) \div 400)

RECURSIVE DaysBeforeMonth(_, _)
DaysBeforeMonth(y, m) ==
    IF m <= 1 THEN 0 ELSE DaysBeforeMonth(y, m - 1) + DaysInMonth(y, m - 1)

\* date(y, m, d).toordinal()
Ymd2Ord(y, m, d) == DaysBeforeYear(y) + DaysBeforeMonth(y, m) + d

\* Whether strptime(text, '%Y-%m-%d') accepts the digit groups y-m-d.
ValidYmd(y, m, d) ==
    /\ y >= 1 /\ y <= 9999
    /\ m >= 1 /\ m <= 12
    /\ d >= 1 /\ d <= DaysInMonth(y, m)

\* datetime.min is 0001-01-01 00:00:00: ordinal 1.
MinOrd == 1

\* timedelta(days=30)
RetentionDays == 30

\* ------------------------------------------------------------------- names

Lit(s) == [kind |-> "lit", text |-> s, a |-> 0, b |-> 0, c |-> 0]

Pat(y, m, d) == [kind |-> "d4-d2-d2", text |-> "", a |-> y, b |-> m, c |-> d]

Tim(h, m, s) == [kind |-> "d2-d2-d2", text |-> "", a |-> h, b |-> m, c |-> s]

FileName(stem, ext) == [stem |-> stem, ext |-> ext]

IndexName == FileName(<<Lit("index")>>, "json")

\* Files a person puts into news/ by hand.
NoDateName == FileName(<<Lit("notes")>>, "json")
OldName == FileName(<<Lit("a_"), Pat(2024, 12, 1), Lit("_b_"), Pat(2025, 2, 10)>>, "json")
MinDateName == FileName(<<Lit("news_"), Pat(1, 1, 1)>>, "json")
BadMonthName == FileName(<<Lit("news_"), Pat(2025, 13, 1)>>, "json")
ReadmeName == FileName(<<Lit("readme_"), Pat(2024, 12, 1)>>, "md")

ManualNames == {NoDateName, OldName, MinDateName, BadMonthName, ReadmeName, IndexName}

ManualBody == [timestamp |-> <<>>, summary |-> "manual", citations |-> <<>>]

\* The instants datetime.now(timezone.utc) returns, in clock order.
Nows ==
    << [y |-> 2025, m |-> 1, d |-> 1, tod |-> 43773],
       [y |-> 2025, m |-> 1, d |-> 31, tod |-> 43773],
       [y |-> 2025, m |-> 3, d |-> 15, tod |-> 200] >>

\* now.strftime("%Y-%m-%d_%H-%M-%S")
Timestamp(t) ==
    << Pat(t.y, t.m, t.d), Lit("_"),
       Tim(t.tod \div 3600, (t.tod \div 60) % 60, t.tod % 60) >>

\* os.path.join(output_folder, f"grok_news_summary_{timestamp}.json")
OutputFile(t) == FileName(<<Lit("grok_news_summary_")>> \o Timestamp(t), "json")

\* ----------------------------------------------------- extract_date_from_filename

\* re.search(r'(\d{4}-\d{2}-\d{2})', filename): the first 4-2-2 digit group.
RECURSIVE FirstPattern(_)
FirstPattern(stem) ==
    IF stem = <<>> THEN [found |-> FALSE, a |-> 0, b |-> 0, c |-> 0]
    ELSE IF Head(stem).kind = "d4-d2-d2"
         THEN [found |-> TRUE, a |-> Head(stem).a, b |-> Head(stem).b, c |-> Head(stem).c]
         ELSE FirstPattern(Tail(stem))

\* The datetime returned (its ordinal; the time of day is 00:00:00), or the
\* ValueError strptime raises on digits that are no calendar date.
extract_date_from_filename(name) ==
    LET match == FirstPattern(name.stem) IN
    IF match.found
    THEN IF ValidYmd(match.a, match.b, match.c)
         THEN [raised |-> FALSE, ord |-> Ymd2Ord(match.a, match.b, match.c)]
         ELSE [raised |-> TRUE, ord |-> 0]
    ELSE [raised |-> FALSE, ord |-> MinOrd]

\* ------------------------------------------------------------ directory scan

Range(s) == {s[i] : i \in 1..Len(s)}

Names(files) == {files[i].name : i \in 1..Len(files)}

\* for file in news_dir.glob('*.json'): the directory's entries, in its order.
GlobJson(files) == SelectSeq(files, LAMBDA f : f.name.ext = "json")

\* The scan without the test that leaves the manifest's own name out.
ScanJsonKeepIndex(files) ==
    LET g == GlobJson(files)
    IN  [i \in 1..Len(g) |-> g[i].name]

\* ... if file.name != 'index.json': json_files.append(file.name)
ScanJson(files) ==
    LET g == SelectSeq(GlobJson(files), LAMBDA f : f.name # IndexName)
    IN  [i \in 1..Len(g) |-> g[i].name]

\* --------------------------------------------------- cleanup_old_news_files

\* (now - timedelta(days=30)).date()
CutoffOrd(t) == Ymd2Ord(t.y, t.m, t.d) - RetentionDays

\* if file_date != datetime.min and file_date.date() < cutoff_date.date()
Expired(ord, t) == ord # MinOrd /\ ord < CutoffOrd(t)

RemoveName(files, name) == SelectSeq(files, LAMBDA f : f.name # name)

RECURSIVE SweepLoop(_, _, _)
SweepLoop(cur, todo, t) ==
    IF todo = <<>> THEN [files |-> cur, raised |-> FALSE]
    ELSE LET file == Head(todo) IN
         IF file.name = IndexName THEN SweepLoop(cur, Tail(todo), t)
         ELSE LET file_date == extract_date_from_filename(file.name) IN
              IF file_date.raised THEN [files |-> cur, raised |-> TRUE]
              ELSE IF Expired(file_date.ord, t)
                   THEN SweepLoop(RemoveName(cur, file.name), Tail(todo), t)
                   ELSE SweepLoop(cur, Tail(todo), t)

cleanup_old_news_files(exists, files, t) ==
    IF ~exists THEN [files |-> files, raised |-> FALSE]
    ELSE SweepLoop(files, GlobJson(files), t)

\* ----------------------------------------------------------- manifest build

NoManifest == [exists |-> FALSE, last_updated |-> 0, total_files |-> 0, files |-> <<>>]

\* list.sort(key=..., reverse=True): descending by key, equal keys keep their order.
InsertDesc(acc, x) ==
    LET k == Cardinality({i \in 1..Len(acc) : acc[i].key >= x.key})
    IN  SubSeq(acc, 1, k) \o <<x>> \o SubSeq(acc, k + 1, Len(acc))

RECURSIVE SortAcc(_, _)
SortAcc(acc, rest) ==
    IF rest = <<>> THEN acc ELSE SortAcc(InsertDesc(acc, Head(rest)), Tail(rest))

\* The sort without reverse=True: ascending by key, equal keys keep their order.
InsertAsc(acc, x) ==
    LET k == Cardinality({i \in 1..Len(acc) : acc[i].key <= x.key})
    IN  SubSeq(acc, 1, k) \o <<x>> \o SubSeq(acc, k + 1, Len(acc))

RECURSIVE SortAccAsc(_, _)
SortAccAsc(acc, rest) ==
    IF rest = <<>> THEN acc ELSE SortAccAsc(InsertAsc(acc, Head(rest)), Tail(rest))

SortOldestFirst(json_files) ==
    LET keyed == [i \in 1..Len(json_files) |->
                    [name |-> json_files[i],
                     key |-> extract_date_from_filename(json_files[i]).ord]]
        sorted == SortAccAsc(<<>>, keyed)
    IN  [i \in 1..Len(sorted) |-> sorted[i].name]

SortNewestFirst(json_files) ==
    LET keyed == [i \in 1..Len(json_files) |->
                    [name |-> json_files[i],
                     key |-> extract_date_from_filename(json_files[i]).ord]]
        sorted == SortAcc(<<>>, keyed)
    IN  [i \in 1..Len(sorted) |-> sorted[i].name]

KeyRaises(json_files) ==
    \E i \in 1..Len(json_files) : extract_date_from_filename(json_files[i]).raised

WriteManifest(json_files, stamp) ==
    [exists |-> TRUE, last_updated |-> stamp,
     total_files |-> Len(json_files), files |-> json_files]

\* fetch_ai_news.py: no check for an empty list.
update_index_json(exists, files, man, stamp) ==
    IF ~exists THEN [manifest |-> man, raised |-> FALSE]
    ELSE LET json_files == ScanJson(files) IN
         IF KeyRaises(json_files) THEN [manifest |-> man, raised |-> TRUE]
         ELSE [manifest |-> WriteManifest(SortNewestFirst(json_files), stamp),
               raised |-> FALSE]

\* update_index.py: returns before writing when nothing was found.
build_news_index(exists, files, man, stamp) ==
    IF ~exists THEN [manifest |-> man, raised |-> FALSE]
    ELSE LET json_files == ScanJson(files) IN
         IF json_files = <<>> THEN [manifest |-> man, raised |-> FALSE]
         ELSE IF KeyRaises(json_files) THEN [manifest |-> man, raised |-> TRUE]
         ELSE [manifest |-> WriteManifest(SortNewestFirst(json_files), stamp),
               raised |-> FALSE]

\* ------------------------------------------------------------ API response

\* What requests.post returns: the status code, the body's 'choices' and the
\* summary text of its first message.
Responses ==
    { [status |-> 200, choices |-> "ok", summary |-> "s1"],
      [status |-> 200, choices |-> "ok", summary |-> "s2"],
      [status |-> 200, choices |-> "absent", summary |-> ""],
      [status |-> 200, choices |-> "empty", summary |-> ""],
      [status |-> 401, choices |-> "absent", summary |-> ""] }

NoResp == [status |-> 0, choices |-> "none", summary |-> ""]

\* The test of the status code alone, without the test of 'choices'.
ApiSucceededStatusOnly(r) == r.status = 200

\* if response.status_code != 200: ... else: if 'choices' in result and result['choices']:
ApiSucceeded(r) == r.status = 200 /\ r.choices \notin {"absent", "empty"}

\* -------------------------------------------------------------- the state

Snapshot == [dirExists |-> dirExists, listing |-> listing, manifest |-> manifest]

NoSnapshot == [dirExists |-> FALSE, listing |-> <<>>, manifest |-> NoManifest]

InsertAt(s, p, e) == SubSeq(s, 1, p - 1) \o <<e>> \o SubSeq(s, p, Len(s))

\* open(output_file, 'w'): an existing file keeps its place and loses its content.
WriteFile(files, p, name, body) ==
    IF name \in Names(files)
    THEN [i \in 1..Len(files) |->
            IF files[i].name = name THEN [name |-> name, body |-> body] ELSE files[i]]
    ELSE InsertAt(files, p, [name |-> name, body |-> body])

Idle == pc \in {"idle", "end"}

Init ==
    /\ dirExists = FALSE
    /\ listing = <<>>
    /\ manifest = NoManifest
    /\ pc = "idle"
    /\ now = 0
    /\ secret = TRUE
    /\ clock = 1
    /\ resp = NoResp
    /\ pre = NoSnapshot
    /\ outcome = "none"

\* ------------------------------------------------- fetch_ai_news.py, one run

\* Lines 12-22: the secret is read, the clock is read, news/ is created.
Start ==
    /\ Idle
    /\ Len(listing) < MaxFiles
    /\ \E i \in 1..Len(Nows), key \in BOOLEAN :
        /\ i >= clock
        /\ now' = i
        /\ clock' = i
        /\ secret' = key
    /\ dirExists' = TRUE
    /\ pre' = Snapshot
    /\ resp' = NoResp
    /\ outcome' = "none"
    /\ pc' = "call_api"
    /\ UNCHANGED <<listing, manifest>>

\* Lines 132-143: the request is sent whatever the secret is; without one the
\* service answers 401.
CallApi ==
    /\ pc = "call_api"
    /\ \E r \in Responses :
        /\ ~secret => r.status = 401
        /\ resp' = r
        /\ IF ApiSucceeded(r)
           THEN pc' = "persist" /\ outcome' = "none"
           ELSE pc' = "end" /\ outcome' = "api_failed"
    /\ UNCHANGED <<dirExists, listing, manifest, now, secret, clock, pre>>

\* Lines 146-153.
Persist ==
    /\ pc = "persist"
    /\ \E p \in 1..(Len(listing) + 1) :
        listing' = WriteFile(listing, p, OutputFile(Nows[now]),
                             [timestamp |-> Timestamp(Nows[now]),
                              summary |-> resp.summary, citations |-> <<>>])
    /\ pc' = "sweep"
    /\ UNCHANGED <<dirExists, manifest, now, secret, clock, resp, pre, outcome>>

\* Line 161.
Sweep ==
    /\ pc = "sweep"
    /\ LET r == cleanup_old_news_files(dirExists, listing, Nows[now]) IN
        /\ listing' = r.files
        /\ IF r.raised
           THEN pc' = "end" /\ outcome' = "sweep_raised"
           ELSE pc' = "rebuild" /\ outcome' = "none"
    /\ UNCHANGED <<dirExists, manifest, now, secret, clock, resp, pre>>

\* Line 162.
Rebuild ==
    /\ pc = "rebuild"
    /\ LET r == update_index_json(dirExists, listing, manifest, now) IN
        /\ manifest' = r.manifest
        /\ outcome' = IF r.raised THEN "rebuild_raised" ELSE "done"
    /\ pc' = "end"
    /\ UNCHANGED <<dirExists, listing, now, secret, clock, resp, pre>>

\* ------------------------------------------------- update_index.py, one run

BuildNewsIndex ==
    /\ Idle
    /\ \E i \in 1..Len(Nows) :
        /\ i >= clock
        /\ clock' = i
        /\ LET r == build_news_index(dirExists, listing, manifest, i) IN
            /\ manifest' = r.manifest
            /\ outcome' = IF r.raised THEN "index_raised" ELSE "none"
    /\ pc' = "idle"
    /\ now' = 0
    /\ secret' = TRUE
    /\ resp' = NoResp
    /\ pre' = NoSnapshot
    /\ UNCHANGED <<dirExists, listing>>

\* ------------------------------------------- edits of news/ made by hand

ManualAdd ==
    /\ Idle
    /\ Len(listing) < MaxFiles
    /\ \E name \in ManualNames \ Names(listing), p \in 1..(Len(listing) + 1) :
        listing' = WriteFile(listing, p, name, ManualBody)
    /\ dirExists' = TRUE
    /\ pc' = "idle"
    /\ now' = 0
    /\ secret' = TRUE
    /\ resp' = NoResp
    /\ pre' = NoSnapshot
    /\ outcome' = "none"
    /\ UNCHANGED <<manifest, clock>>

Next ==
    \/ Start
    \/ CallApi
    \/ Persist
    \/ Sweep
    \/ Rebuild
    \/ BuildNewsIndex
    \/ ManualAdd

Spec == Init /\ [][Next]_vars

\* ------------------------------------- the two manifest builders, called alone

RECURSIVE InjectiveSeqs(_, _)
InjectiveSeqs(S, n) ==
    IF n = 0 THEN {<<>>}
    ELSE LET shorter == InjectiveSeqs(S, n - 1)
         IN  shorter \cup {Append(q, e) : q \in shorter, e \in S}

ManualEntries == {[name |-> n, body |-> ManualBody] : n \in ManualNames}

Distinct(q) == \A i, j \in 1..Len(q) : q[i] = q[j] => i = j

\* The directories a builder can be called on.
FnListings == {q \in InjectiveSeqs(ManualEntries, MaxFiles) : Distinct(q)}

\* A manifest left by an earlier build.
StaleManifest == WriteManifest(<<OldName>>, 1)

InitFn ==
    /\ dirExists \in BOOLEAN
    /\ listing \in (IF dirExists THEN FnListings ELSE {<<>>})
    /\ manifest \in {NoManifest, StaleManifest}
    /\ pc = "idle"
    /\ now = 0
    /\ secret = TRUE
    /\ clock = 1
    /\ resp = NoResp
    /\ pre = NoSnapshot
    /\ outcome = "none"

FnUpdateIndexJson ==
    /\ pc \in {"idle", "fn_build"}
    /\ \E i \in 1..Len(Nows) :
        /\ now' = i
        /\ LET r == update_index_json(dirExists, listing, manifest, i) IN
            /\ manifest' = r.manifest
            /\ outcome' = IF r.raised THEN "rebuild_raised" ELSE "none"
    /\ pre' = Snapshot
    /\ pc' = IF pc = "idle" THEN "fn_update" ELSE "fn_build_update"
    /\ UNCHANGED <<dirExists, listing, secret, clock, resp>>

FnBuildNewsIndex ==
    /\ pc \in {"idle", "fn_update"}
    /\ \E i \in 1..Len(Nows) :
        /\ now' = i
        /\ LET r == build_news_index(dirExists, listing, manifest, i) IN
            /\ manifest' = r.manifest
            /\ outcome' = IF r.raised THEN "index_raised" ELSE "none"
    /\ pre' = Snapshot
    /\ pc' = IF pc = "idle" THEN "fn_build" ELSE "fn_update_build"
    /\ UNCHANGED <<dirExists, listing, secret, clock, resp>>

NextFn ==
    \/ FnUpdateIndexJson
    \/ FnBuildNewsIndex

SpecFn == InitFn /\ [][NextFn]_vars

\* ----------------------------------------------------------------- claims

\* A run of fetch_ai_news.py has started and its variables are still held.
InRun == pc \in {"call_api", "persist", "sweep", "rebuild", "end"}

\* The sweep of the current run has run (to its end or to an exception).
AfterSweep ==
    \/ pc = "rebuild"
    \/ pc = "end" /\ outcome \in {"sweep_raised", "rebuild_raised", "done"}

\* The names in news/ when the sweep of the current run began.
SweptFrom == Names(pre.listing) \cup {OutputFile(Nows[now])}

IsEntryName(name) == name.ext = "json" /\ name # IndexName

HasPattern(name) == FirstPattern(name.stem).found

\* The first 4-2-2 digit group of the name is a calendar date.
HasCalendarDate(name) ==
    LET g == FirstPattern(name.stem) IN g.found /\ ValidYmd(g.a, g.b, g.c)

CalendarOrd(name) ==
    LET g == FirstPattern(name.stem) IN Ymd2Ord(g.a, g.b, g.c)

NowOrd == Ymd2Ord(Nows[now].y, Nows[now].m, Nows[now].d)

\* C1: after the retention sweep with a given now, every entry whose filename
\* yields a calendar date is gone if and only if that date is strictly before
\* the date of now minus 30 days.
C1_SweepRemovesExactlyExpired ==
    AfterSweep =>
        \A n \in SweptFrom :
            (IsEntryName(n) /\ HasCalendarDate(n)) =>
                ((n \notin Names(listing)) <=> (CalendarOrd(n) < NowOrd - 30))

\* C2: a name without a YYYY-MM-DD digit pattern extracts to the minimum
\* sentinel date, stands after every entry with a parseable date in every
\* manifest, and is never deleted by a retention sweep.
C2_NoPatternSentinelLastNeverSwept ==
    /\ \A i \in 1..Len(listing) :
        ~HasPattern(listing[i].name) =>
            extract_date_from_filename(listing[i].name) = [raised |-> FALSE, ord |-> MinOrd]
    /\ manifest.exists =>
        \A i, j \in 1..Len(manifest.files) :
            (~HasPattern(manifest.files[i]) /\ HasCalendarDate(manifest.files[j])) => j < i
    /\ InRun =>
        \A i \in 1..Len(pre.listing) :
            ~HasPattern(pre.listing[i].name) => pre.listing[i] \in Range(listing)

\* C3: every manifest written by update_index_json or build_news_index has
\* total_files equal to the length of files, and files in non-increasing order
\* of extracted filename date.
C3_ManifestCountAndOrder ==
    manifest.exists =>
        /\ manifest.total_files = Len(manifest.files)
        /\ \A i, j \in 1..Len(manifest.files) :
            i < j =>
                /\ ~extract_date_from_filename(manifest.files[i]).raised
                /\ ~extract_date_from_filename(manifest.files[j]).raised
                /\ extract_date_from_filename(manifest.files[i]).ord
                     >= extract_date_from_filename(manifest.files[j]).ord

\* A run wrote a manifest of three entries, in another order than the
\* directory lists them, the first dated after the last.
C3_Witness ==
    /\ pc = "end" /\ outcome = "done"
    /\ manifest.exists
    /\ Len(manifest.files) = 3
    /\ manifest.files # ScanJson(listing)
    /\ extract_date_from_filename(manifest.files[1]).ord
         > extract_date_from_filename(manifest.files[3]).ord

\* The API call failed as the claim means it: a status outside 2xx, or a body
\* without a 'choices' result.
ClaimApiFailure(r) ==
    r # NoResp /\ (r.status \notin 200..299 \/ r.choices \in {"absent", "empty"})

\* C4 as stated: when the API call fails, the archive state after the run
\* (directory, entries, manifest) equals the state before it.
C4_FailedRunLeavesStateEqual ==
    (pc = "end" /\ ClaimApiFailure(resp)) => Snapshot = pre

\* C4 as amended: when the API call fails, no entry is written, changed or
\* deleted and the manifest is not rewritten; the one change the run makes is
\* that the directory news/ exists afterwards.
C4_FailedRunLeavesEntriesAndManifest ==
    (pc = "end" /\ ClaimApiFailure(resp)) =>
        /\ listing = pre.listing
        /\ manifest = pre.manifest
        /\ dirExists
        /\ outcome = "api_failed"

\* A run over an archive with entries and a manifest got status 200 and a
\* body without choices.
C4_Witness ==
    /\ pc = "end" /\ ClaimApiFailure(resp)
    /\ resp.status = 200
    /\ Len(listing) >= 2
    /\ manifest.exists

\* C5: in a run where XAI_API_KEY is absent the orchestrator never reaches
\* the API call and performs no side effect.
C5_NoSecretNoCallNoEffect ==
    (InRun /\ ~secret) =>
        /\ pc # "call_api"
        /\ resp = NoResp
        /\ Snapshot = pre

\* C6: each successful run persists exactly one new entry under a name that
\* was not in the archive, no run changes the content of an entry that
\* exists, and entries are removed by the retention sweep only.
C6_OneNewEntryNoneMutated ==
    InRun =>
        /\ pc = "sweep" =>
            /\ OutputFile(Nows[now]) \notin Names(pre.listing)
            /\ Names(listing) = Names(pre.listing) \cup {OutputFile(Nows[now])}
            /\ Len(listing) = Len(pre.listing) + 1
        /\ \A i \in 1..Len(pre.listing) :
            pre.listing[i].name \in Names(listing) => pre.listing[i] \in Range(listing)
        /\ pc \in {"call_api", "persist", "sweep"} => Names(pre.listing) \subseteq Names(listing)

\* C7: extract_date_from_filename never fails: a name with a digit pattern
\* yields the date of the first one, any other name the sentinel, and no
\* sweep or manifest build is aborted by a filename.
C7_ExtractorNeverRaises ==
    /\ outcome \notin {"sweep_raised", "rebuild_raised", "index_raised"}
    /\ AfterSweep =>
        \A n \in SweptFrom :
            IsEntryName(n) =>
                LET r == extract_date_from_filename(n) IN
                /\ ~r.raised
                /\ HasPattern(n) => r.ord = CalendarOrd(n)
                /\ ~HasPattern(n) => r.ord = MinOrd

\* C8: called on an absent directory or on one without entries, neither
\* update_index_json nor build_news_index writes a manifest: the manifest
\* file is as it was.
C8_NothingToIndexNothingWritten ==
    (pc \in {"fn_update", "fn_build", "fn_update_build", "fn_build_update"}
       /\ (~pre.dirExists \/ {n \in Names(pre.listing) : IsEntryName(n)} = {}))
        => manifest = pre.manifest

\* C9: after a run that persisted, swept and rebuilt, the manifest's files are
\* exactly the entry files in news/: the entry of this run among them, none
\* the sweep deleted, none twice, and never index.json.
C9_ManifestIsArchiveAfterRun ==
    (pc = "end" /\ outcome = "done") =>
        /\ manifest.exists
        /\ Range(manifest.files) = {n \in Names(listing) : IsEntryName(n)}
        /\ OutputFile(Nows[now]) \in Range(manifest.files)
        /\ \A n \in SweptFrom \ Names(listing) : n \notin Range(manifest.files)
        /\ \A i, j \in 1..Len(manifest.files) : manifest.files[i] = manifest.files[j] => i = j
        /\ IndexName \notin Range(manifest.files)
        /\ manifest.last_updated = now

\* A completed run whose sweep deleted an entry, over a directory that holds
\* a file named index.json.
C9_Witness ==
    /\ pc = "end" /\ outcome = "done"
    /\ IndexName \in Names(listing)
    /\ SweptFrom \ Names(listing) # {}

DerivedData(m) == <<m.exists, m.total_files, m.files>>

\* C10: on the same directory the two builders leave manifests with the same
\* files and total_files, so the one called right after the other changes
\* neither.
C10_BuildersAgree ==
    pc \in {"fn_update_build", "fn_build_update"} =>
        DerivedData(manifest) = DerivedData(pre.manifest)

====
